---- MODULE Spec2Model ----
(***************************************************************************)
(* Vector index metadata of the search-index build engine:                 *)
(* crates/database/src/vector_index_worker/vector_meta.rs.                 *)
(*                                                                         *)
(* The conversions between the persisted VectorIndexState and the working  *)
(* SearchOnDiskState, VectorStatistics and the SearchIndex operations of   *)
(* VectorSearchIndex are translated from that file.  The generic build     *)
(* cycle that drives them (index_workers), the fan-out helper              *)
(* try_join_buffer_unordered, the metadata store and the object store are  *)
(* not part of the source at hand and are modelled from the design         *)
(* document (sections 4.4, 5 and 6).                                       *)
(***************************************************************************)
EXTENDS Integers, Sequences, FiniteSets, TLC

VARIABLES
    persisted,  \* metadata store: [rev, config], the IndexConfig record and its revision
    storage,    \* object store: the segment descriptors whose upload has completed
    log,        \* document change log; a logical timestamp is a position in it
    nextId,     \* next fresh segment id handed out by upload_new_segment
    cycle,      \* per worker: the position and local state of its build cycle
    pure        \* inputs and outputs of the pure-function specifications

vars == <<persisted, storage, log, nextId, cycle, pure>>

(***************************************************************************)
(* Bounds of the model.                                                    *)
(***************************************************************************)
MaxDocs == 2
MaxLog == 2
MaxWrites == 2
MaxNewSegments == 2
\* Bound of the document log when one build cycle runs at a time.
MaxSoloLog == 4
\* Bounds of the inputs of the pure-function specifications.
MaxSegments == 2
MaxStat == 1

Workers == {1, 2}
DocIds == 1..MaxDocs

(***************************************************************************)
(* anyhow::Result                                                          *)
(***************************************************************************)
Ok(v) == [ok |-> TRUE, val |-> v]
Err(e) == [ok |-> FALSE, err |-> e]

(***************************************************************************)
(* impl From<VectorIndexBackfillState> for BackfillState<VectorSearchIndex>*)
(* and back.  Each side is a distinct type: the conversion moves the three *)
(* fields one by one.                                                      *)
(***************************************************************************)
BackfillState_from(value) ==
    [type |-> "BackfillState",
     segments |-> value.segments,
     cursor |-> value.cursor,
     backfill_snapshot_ts |-> value.backfill_snapshot_ts]

VectorIndexBackfillState_from(value) ==
    [type |-> "VectorIndexBackfillState",
     segments |-> value.segments,
     cursor |-> value.cursor,
     backfill_snapshot_ts |-> value.backfill_snapshot_ts]

\* Mutant: the opaque payload of an Unknown snapshot is dropped.
SnapshotData_from_dropping_unknown(value) ==
    CASE value.tag = "MultiSegment" ->
            [type |-> "SnapshotData", tag |-> "MultiSegment", payload |-> value.payload]
      [] value.tag = "Unknown" ->
            [type |-> "SnapshotData", tag |-> "MultiSegment", payload |-> <<>>]

(***************************************************************************)
(* impl From<VectorIndexSnapshotData> for SnapshotData<..>                 *)
(***************************************************************************)
SnapshotData_from(value) ==
    CASE value.tag = "MultiSegment" ->
            [type |-> "SnapshotData", tag |-> "MultiSegment", payload |-> value.payload]
      [] value.tag = "Unknown" ->
            [type |-> "SnapshotData", tag |-> "Unknown", payload |-> value.payload]

\* Mutant: a single-segment snapshot is accepted as an empty multi-segment one.
VectorIndexSnapshotData_try_from_accepting_single(value) ==
    CASE value.tag = "Unknown" ->
            Ok([type |-> "VectorIndexSnapshotData", tag |-> "Unknown",
                payload |-> value.payload])
      [] value.tag = "SingleSegment" ->
            Ok([type |-> "VectorIndexSnapshotData", tag |-> "MultiSegment",
                payload |-> <<>>])
      [] value.tag = "MultiSegment" ->
            Ok([type |-> "VectorIndexSnapshotData", tag |-> "MultiSegment",
                payload |-> value.payload])

(***************************************************************************)
(* impl TryFrom<SnapshotData<..>> for VectorIndexSnapshotData              *)
(***************************************************************************)
VectorIndexSnapshotData_try_from(value) ==
    CASE value.tag = "Unknown" ->
            Ok([type |-> "VectorIndexSnapshotData", tag |-> "Unknown",
                payload |-> value.payload])
      [] value.tag = "SingleSegment" ->
            Err("Vector search can't have single segment indexes!")
      [] value.tag = "MultiSegment" ->
            Ok([type |-> "VectorIndexSnapshotData", tag |-> "MultiSegment",
                payload |-> value.payload])

(***************************************************************************)
(* impl From<VectorIndexSnapshot> for SearchSnapshot<VectorSearchIndex>    *)
(***************************************************************************)
SearchSnapshot_from(snapshot) ==
    [type |-> "SearchSnapshot",
     ts |-> snapshot.ts,
     data |-> SnapshotData_from(snapshot.data)]

\* Mutant: the snapshot's timestamp is not carried over.
VectorIndexSnapshot_try_from_losing_ts(value) ==
    LET data == VectorIndexSnapshotData_try_from(value.data) IN
    IF ~data.ok THEN data
    ELSE Ok([type |-> "VectorIndexSnapshot", data |-> data.val, ts |-> 0])

(***************************************************************************)
(* impl TryFrom<SearchSnapshot<..>> for VectorIndexSnapshot                *)
(***************************************************************************)
VectorIndexSnapshot_try_from(value) ==
    LET data == VectorIndexSnapshotData_try_from(value.data) IN
    IF ~data.ok THEN data
    ELSE Ok([type |-> "VectorIndexSnapshot", data |-> data.val, ts |-> value.ts])

(***************************************************************************)
(* impl From<VectorIndexState> for SearchOnDiskState<VectorSearchIndex>    *)
(***************************************************************************)
SearchOnDiskState_from(value) ==
    CASE value.tag = "Backfilling" ->
            [type |-> "SearchOnDiskState", tag |-> "Backfilling",
             inner |-> BackfillState_from(value.inner)]
      [] value.tag = "Backfilled" ->
            [type |-> "SearchOnDiskState", tag |-> "Backfilled",
             inner |-> SearchSnapshot_from(value.inner)]
      [] value.tag = "SnapshottedAt" ->
            [type |-> "SearchOnDiskState", tag |-> "SnapshottedAt",
             inner |-> SearchSnapshot_from(value.inner)]

\* Mutant: the arms of Backfilled and SnapshottedAt are swapped.
VectorIndexState_try_from_swapped(value) ==
    CASE value.tag = "Backfilling" ->
            Ok([type |-> "VectorIndexState", tag |-> "Backfilling",
                inner |-> VectorIndexBackfillState_from(value.inner)])
      [] value.tag = "Backfilled" ->
            LET snapshot == VectorIndexSnapshot_try_from(value.inner) IN
            IF ~snapshot.ok THEN snapshot
            ELSE Ok([type |-> "VectorIndexState", tag |-> "SnapshottedAt",
                     inner |-> snapshot.val])
      [] value.tag = "SnapshottedAt" ->
            LET snapshot == VectorIndexSnapshot_try_from(value.inner) IN
            IF ~snapshot.ok THEN snapshot
            ELSE Ok([type |-> "VectorIndexState", tag |-> "Backfilled",
                     inner |-> snapshot.val])

(***************************************************************************)
(* impl TryFrom<SearchOnDiskState<..>> for VectorIndexState                *)
(***************************************************************************)
VectorIndexState_try_from(value) ==
    CASE value.tag = "Backfilling" ->
            Ok([type |-> "VectorIndexState", tag |-> "Backfilling",
                inner |-> VectorIndexBackfillState_from(value.inner)])
      [] value.tag = "Backfilled" ->
            LET snapshot == VectorIndexSnapshot_try_from(value.inner) IN
            IF ~snapshot.ok THEN snapshot
            ELSE Ok([type |-> "VectorIndexState", tag |-> "Backfilled",
                     inner |-> snapshot.val])
      [] value.tag = "SnapshottedAt" ->
            LET snapshot == VectorIndexSnapshot_try_from(value.inner) IN
            IF ~snapshot.ok THEN snapshot
            ELSE Ok([type |-> "VectorIndexState", tag |-> "SnapshottedAt",
                     inner |-> snapshot.val])

(***************************************************************************)
(* VectorSearchIndex::new_index_config                                     *)
(***************************************************************************)
new_index_config(developer_config, new_state) ==
    LET on_disk_state == VectorIndexState_try_from(new_state) IN
    IF ~on_disk_state.ok THEN on_disk_state
    ELSE Ok([kind |-> "Vector",
             on_disk_state |-> on_disk_state.val,
             developer_config |-> developer_config])

\* Mutant: a record of another kind is taken for a new vector index instead
\* of failing.
extract_metadata_unchecked(metadata) ==
    IF metadata.config.kind \in {"Database", "Search"}
    THEN Ok([developer_config |-> <<>>,
             on_disk_state |->
                [type |-> "SearchOnDiskState", tag |-> "Backfilling",
                 inner |-> [type |-> "BackfillState", segments |-> <<>>,
                            cursor |-> 0, backfill_snapshot_ts |-> <<>>]]])
    ELSE Ok([developer_config |-> metadata.config.developer_config,
             on_disk_state |-> SearchOnDiskState_from(metadata.config.on_disk_state)])

\* Mutant: a vector index that is still backfilling is rejected as well.
extract_metadata_rejecting_backfilling(metadata) ==
    IF \/ metadata.config.kind \in {"Database", "Search"}
       \/ metadata.config.on_disk_state.tag = "Backfilling"
    THEN Err("Index type changed!")
    ELSE Ok([developer_config |-> metadata.config.developer_config,
             on_disk_state |-> SearchOnDiskState_from(metadata.config.on_disk_state)])

(***************************************************************************)
(* VectorSearchIndex::extract_metadata                                     *)
(***************************************************************************)
extract_metadata(metadata) ==
    IF metadata.config.kind \in {"Database", "Search"}
    THEN Err("Index type changed!")
    ELSE Ok([developer_config |-> metadata.config.developer_config,
             on_disk_state |-> SearchOnDiskState_from(metadata.config.on_disk_state)])

\* Mutant: a config of any kind is parsed.
get_config_any_kind(config) ==
    [some |-> TRUE,
     val |-> [developer_config |-> config.developer_config,
              on_disk_state |-> config.on_disk_state]]

(***************************************************************************)
(* VectorIndexConfigParser::get_config.  An Option is [some |-> FALSE] or  *)
(* [some |-> TRUE, val |-> v].                                             *)
(***************************************************************************)
get_config(config) ==
    IF config.kind # "Vector"
    THEN [some |-> FALSE]
    ELSE [some |-> TRUE,
          val |-> [developer_config |-> config.developer_config,
                   on_disk_state |-> SearchOnDiskState_from(config.on_disk_state)]]

(***************************************************************************)
(* Fixed-width unsigned integers.  A u32 is two 16-bit limbs and a u64 is  *)
(* four, least significant first, so that every sum stays inside the       *)
(* model checker's integers while the width is the program's.              *)
(***************************************************************************)
LimbBits == 16
LimbBase == 2 ^ LimbBits
U32Limbs == 2
U64Limbs == 4

RECURSIVE ToLimbs(_, _)
ToLimbs(n, limbs) ==
    IF limbs = 0 THEN <<>>
    ELSE <<n % LimbBase>> \o ToLimbs(n \div LimbBase, limbs - 1)

\* A small natural number as a u32 / u64.
U32(n) == ToLimbs(n, U32Limbs)
U64(n) == ToLimbs(n, U64Limbs)

\* `x as u64` of a u32: zero-extension.
AsU64(x) == x \o [i \in 1..(U64Limbs - Len(x)) |-> 0]

RECURSIVE AddLimbs(_, _, _)
\* a + b + carry, limb by limb: [sum, carry], carry = 1 when the sum does not
\* fit the width.
AddLimbs(a, b, carry) ==
    IF a = <<>> THEN [sum |-> <<>>, carry |-> carry]
    ELSE LET t == Head(a) + Head(b) + carry
             rest == AddLimbs(Tail(a), Tail(b), t \div LimbBase)
         IN [sum |-> <<t % LimbBase>> \o rest.sum, carry |-> rest.carry]

\* The outcome of an overflowing `+`: a panic when the build checks overflow
\* (debug profile), the wrapped sum when it does not (release profile).
Panic == [ok |-> FALSE, panic |-> TRUE, err |-> "attempt to add with overflow"]
IsPanic(r) == "panic" \in DOMAIN r

\* Mutant: the right-hand side's non-deleted count is left out of the sum.
add_forgetting_rhs(lhs, rhs, overflow_checks) ==
    IF ~rhs.ok THEN rhs
    ELSE IF ~lhs.ok THEN lhs
    ELSE LET nv == AddLimbs(lhs.val.num_vectors, rhs.val.num_vectors, 0) IN
         IF overflow_checks /\ nv.carry = 1 THEN Panic
         ELSE Ok([num_vectors |-> nv.sum,
                  non_deleted_vectors |-> lhs.val.non_deleted_vectors])

(***************************************************************************)
(* impl SegmentStatistics for VectorStatistics                             *)
(***************************************************************************)
add(lhs, rhs, overflow_checks) ==
    IF ~rhs.ok THEN rhs
    ELSE IF ~lhs.ok THEN lhs
    ELSE LET nv == AddLimbs(lhs.val.num_vectors, rhs.val.num_vectors, 0)
             nd == AddLimbs(lhs.val.non_deleted_vectors,
                            rhs.val.non_deleted_vectors, 0)
         IN IF overflow_checks /\ (nv.carry = 1 \/ nd.carry = 1) THEN Panic
            ELSE Ok([num_vectors |-> nv.sum, non_deleted_vectors |-> nd.sum])

num_documents(stats) == AsU64(stats.num_vectors)

num_non_deleted_documents(stats) == stats.non_deleted_vectors

\* #[derive(Default)]
VectorStatistics_default == [num_vectors |-> U32(0), non_deleted_vectors |-> U64(0)]

(***************************************************************************)
(* impl SegmentType<VectorSearchIndex> for FragmentedVectorSegment         *)
(*                                                                         *)
(* A segment descriptor is [id, num_vectors, num_deleted, docs, deleted]:  *)
(* docs and deleted stand for the contents of the data blob and of the     *)
(* deletion-bitset blob the descriptor's storage keys point at.            *)
(***************************************************************************)
id(segment) == segment.id

num_deleted(segment) == AsU64(U32(segment.num_deleted))

\* FragmentedVectorSegment::non_deleted_vectors (bootstrap_model): the checked
\* difference num_vectors - num_deleted.
non_deleted_vectors(segment) ==
    IF segment.num_deleted > segment.num_vectors
    THEN Err("Created a segment with more deleted vectors than total vectors")
    ELSE Ok(U64(segment.num_vectors - segment.num_deleted))

\* Mutant: the non-deleted count is left at its default.
statistics_without_non_deleted(segment) ==
    LET ndv == non_deleted_vectors(segment) IN
    IF ~ndv.ok THEN ndv
    ELSE Ok([non_deleted_vectors |-> U64(0),
             num_vectors |-> U32(segment.num_vectors)])

statistics(segment) ==
    LET ndv == non_deleted_vectors(segment) IN
    IF ~ndv.ok THEN ndv
    ELSE Ok([non_deleted_vectors |-> ndv.val,
             num_vectors |-> U32(segment.num_vectors)])

(***************************************************************************)
(* SnapshotData (index_workers::index_meta).  An Unknown payload is opaque *)
(* to this version of the engine; in the model it records the segments the *)
(* foreign-format snapshot nominally holds.                                *)
(***************************************************************************)
SnapshotData_is_version_current(data) == data.tag = "MultiSegment"

SnapshotData_segments(data) ==
    CASE data.tag = "MultiSegment" -> data.payload
      [] data.tag = "Unknown" -> data.payload.segments
      [] data.tag = "SingleSegment" -> <<>>

\* Mutant: every snapshot is taken to be current.
is_version_current_always(snapshot) == TRUE

(***************************************************************************)
(* VectorSearchIndex::is_version_current                                   *)
(***************************************************************************)
is_version_current(snapshot) == SnapshotData_is_version_current(snapshot.data)

(***************************************************************************)
(* common::runtime::try_join_buffer_unordered: the results of the tasks in *)
(* completion order; the first error wins, otherwise every value.          *)
(***************************************************************************)
RECURSIVE try_join_buffer_unordered(_)
try_join_buffer_unordered(results) ==
    IF results = <<>> THEN Ok(<<>>)
    ELSE IF ~Head(results).ok THEN Head(results)
    ELSE LET rest == try_join_buffer_unordered(Tail(results)) IN
         IF ~rest.ok THEN rest ELSE Ok(<<Head(results).val>> \o rest.val)

(***************************************************************************)
(* MutableFragmentedSegmentMetadata (search::fragmented_segment): the      *)
(* working copy of one previous segment, with its live deletion bitset.    *)
(***************************************************************************)
MutableFragmentedSegmentMetadata_download(segment) ==
    [segment |-> segment, deleted |-> segment.deleted]

\* maybe_delete: marks the document when this segment holds it and it is not
\* marked yet, and leaves the entry alone otherwise.
MutableFragmentedSegmentMetadata_maybe_delete(entry, convex_id) ==
    IF convex_id \in entry.segment.docs /\ convex_id \notin entry.deleted
    THEN [entry EXCEPT !.deleted = @ \cup {convex_id}]
    ELSE entry

\* upload_deleted_bitset: the original descriptor when the bitset was not
\* mutated; otherwise a new bitset blob, and its count, under the same id.
MutableFragmentedSegmentMetadata_upload_deleted_bitset(entry) ==
    IF entry.deleted = entry.segment.deleted THEN entry.segment
    ELSE [entry.segment EXCEPT
            !.deleted = entry.deleted,
            !.num_deleted = Cardinality(entry.deleted)]

\* Mutant: marking a document that is already marked clears its mark.
maybe_delete_document_toggling(previous_segments, convex_id) ==
    [i \in DOMAIN previous_segments |->
        IF convex_id \in previous_segments[i].deleted
        THEN [previous_segments[i] EXCEPT !.deleted = @ \ {convex_id}]
        ELSE MutableFragmentedSegmentMetadata_maybe_delete(
                previous_segments[i], convex_id)]

(***************************************************************************)
(* impl PreviousSegmentsType for PreviousVectorSegments                    *)
(***************************************************************************)
maybe_delete_document(previous_segments, convex_id) ==
    [i \in DOMAIN previous_segments |->
        MutableFragmentedSegmentMetadata_maybe_delete(previous_segments[i], convex_id)]

(***************************************************************************)
(* VectorSearchIndex::download_previous_segments and                       *)
(* upload_previous_segments, applied to the results of their tasks.        *)
(***************************************************************************)
\* Mutant: the tasks that failed are skipped and the others' results returned.
download_previous_segments_skipping_failures(task_results) ==
    LET done == SelectSeq(task_results, LAMBDA r : r.ok) IN
    Ok([k \in DOMAIN done |-> done[k].val])

download_previous_segments(task_results) ==
    LET segments == try_join_buffer_unordered(task_results) IN
    IF ~segments.ok THEN segments ELSE Ok(segments.val)

upload_previous_segments(task_results) ==
    try_join_buffer_unordered(task_results)

(***************************************************************************)
(* VectorSearchIndex::build_disk_index: QdrantSchema::build_disk_index     *)
(* consumes the document stream, marks superseded and deleted documents in *)
(* the previous segments and collects the new vectors; it returns no new   *)
(* segment when there is nothing new to write.                             *)
(***************************************************************************)
RECURSIVE QdrantSchema_build_disk_index(_, _, _)
QdrantSchema_build_disk_index(documents, previous_segments, new_docs) ==
    IF documents = <<>>
    THEN [new_segment |-> IF new_docs = {} THEN <<>> ELSE <<[docs |-> new_docs]>>,
          previous_segments |-> previous_segments]
    ELSE LET change == Head(documents) IN
         CASE change.op = "insert" ->
                QdrantSchema_build_disk_index(
                    Tail(documents), previous_segments, new_docs \cup {change.id})
           [] change.op = "delete" ->
                QdrantSchema_build_disk_index(
                    Tail(documents),
                    maybe_delete_document(previous_segments, change.id),
                    new_docs \ {change.id})
           [] OTHER ->
                QdrantSchema_build_disk_index(
                    Tail(documents), previous_segments, new_docs)

\* Mutant: the schema works on a copy of the previous segments, whose marks
\* are lost.
build_disk_index_on_a_copy(documents, previous_segments) ==
    [QdrantSchema_build_disk_index(documents, previous_segments, {})
        EXCEPT !.previous_segments = previous_segments]

build_disk_index(documents, previous_segments) ==
    QdrantSchema_build_disk_index(documents, previous_segments, {})

(***************************************************************************)
(* VectorSearchIndex::upload_new_segment: upload_vector_segment stores the *)
(* new segment under a fresh id and returns its descriptor.                *)
(***************************************************************************)
\* Mutant: every new segment is stored under the same id.
upload_new_segment_under_one_id(new_segment, fresh_id) ==
    [id |-> MaxDocs + 1,
     num_vectors |-> Cardinality(new_segment.docs),
     num_deleted |-> 0,
     docs |-> new_segment.docs,
     deleted |-> {}]

upload_new_segment(new_segment, fresh_id) ==
    [id |-> fresh_id,
     num_vectors |-> Cardinality(new_segment.docs),
     num_deleted |-> 0,
     docs |-> new_segment.docs,
     deleted |-> {}]

(***************************************************************************)
(* The build cycle of section 4.4.                                         *)
(***************************************************************************)
\* Step 3: the segment list of the loaded state; none when the snapshot's
\* version is stale.
previous_segment_list(state) ==
    IF state.tag = "Backfilling" THEN state.inner.segments
    ELSE IF is_version_current(state.inner)
         THEN SnapshotData_segments(state.inner.data)
         ELSE <<>>

\* Step 4: where the document stream starts.
stream_start(state) ==
    IF state.tag = "Backfilling" THEN state.inner.cursor
    ELSE IF is_version_current(state.inner) THEN state.inner.ts
         ELSE 0

\* Step 7: the fold of Statistics::add over the segments' statistics.
RECURSIVE aggregate_statistics(_, _)
aggregate_statistics(segments, acc) ==
    IF segments = <<>> THEN acc
    ELSE aggregate_statistics(Tail(segments), add(acc, statistics(Head(segments)), TRUE))

\* Step 8: the working state the cycle proposes.  `layout` is the SnapshotData
\* variant the snapshot is composed in.
snapshot_data(layout, segments) ==
    IF layout = "MultiSegment"
    THEN [type |-> "SnapshotData", tag |-> "MultiSegment", payload |-> segments]
    ELSE [type |-> "SnapshotData", tag |-> "SingleSegment", payload |-> "object_key"]

transition(state, segments, upto, new_ts, layout) ==
    IF state.tag = "Backfilling" /\ upto < new_ts
    THEN [type |-> "SearchOnDiskState", tag |-> "Backfilling",
          inner |-> [type |-> "BackfillState",
                     segments |-> segments,
                     cursor |-> upto,
                     backfill_snapshot_ts |->
                        IF state.inner.backfill_snapshot_ts = <<>>
                        THEN <<new_ts>>
                        ELSE state.inner.backfill_snapshot_ts]]
    ELSE [type |-> "SearchOnDiskState",
          tag |-> IF state.tag = "Backfilling" THEN "Backfilled" ELSE "SnapshottedAt",
          inner |-> [type |-> "SearchSnapshot",
                     ts |-> new_ts,
                     data |-> snapshot_data(layout, segments)]]

Layouts == {"MultiSegment", "SingleSegment"}

\* Mutant: the record is replaced whatever its current version.
compare_and_swap_blind(current, expected, config) ==
    Ok([rev |-> current.rev + 1, config |-> config])

\* The metadata store is transactional: a write of the index record is a
\* commit at a new logical timestamp, that touches no document of the table.
IndexWrite == [op |-> "index", id |-> 0]

\* Step 9, the metadata store's compare-and-swap: the record is replaced only
\* when it still is the version the cycle read.
compare_and_swap(current, expected, config) ==
    IF current = expected
    THEN Ok([rev |-> current.rev + 1, config |-> config])
    ELSE Err("WriteConflict")

Idle(outcome) ==
    [pc |-> "idle", outcome |-> outcome, read |-> <<>>, developer_config |-> <<>>,
     state |-> <<>>, new_ts |-> 0, from |-> 0, upto |-> 0, tasks |-> <<>>,
     pending |-> {}, results |-> <<>>, previous |-> <<>>, new_segment |-> <<>>,
     uploaded_new |-> <<>>]

\* Step 1 (and 2, 3): read the IndexConfig, extract the metadata, check the
\* version and list the previous segments to download.
Load(w) ==
    /\ cycle[w].pc = "idle"
    /\ LET md == extract_metadata(persisted) IN
       IF ~md.ok
       THEN cycle' = [cycle EXCEPT ![w] = Idle("IndexKindChanged")]
       ELSE LET state == md.val.on_disk_state
                segs == previous_segment_list(state)
            IN cycle' = [cycle EXCEPT ![w] =
                    [Idle("running") EXCEPT
                        !.pc = IF segs = <<>> THEN "build" ELSE "download",
                        !.read = persisted,
                        !.developer_config = md.val.developer_config,
                        !.state = state,
                        !.new_ts = Len(log),
                        !.from = stream_start(state),
                        !.tasks = segs,
                        !.pending = DOMAIN segs]]
    /\ UNCHANGED <<persisted, storage, log, nextId, pure>>

\* Step 3: one download task completes, in any order; `ok` is whether the
\* object store served it.
DownloadTask(w, i, ok) ==
    /\ cycle[w].pc = "download"
    /\ i \in cycle[w].pending
    /\ LET c == cycle[w]
           r == IF ok /\ c.tasks[i] \in storage
                THEN Ok(MutableFragmentedSegmentMetadata_download(c.tasks[i]))
                ELSE Err("StorageIO")
           results == Append(c.results, r)
           pending == c.pending \ {i}
           joined == download_previous_segments(results)
       IN IF r.ok /\ pending # {}
          THEN cycle' = [cycle EXCEPT ![w].results = results, ![w].pending = pending]
          ELSE IF ~joined.ok
          THEN cycle' = [cycle EXCEPT ![w] = Idle("StorageIO")]
          ELSE cycle' = [cycle EXCEPT ![w].pc = "build",
                                      ![w].previous = joined.val,
                                      ![w].tasks = <<>>,
                                      ![w].results = <<>>,
                                      ![w].pending = {}]
    /\ UNCHANGED <<persisted, storage, log, nextId, pure>>

\* Steps 4 and 5: merge the document stream and construct the new segment.
\* A backfill reads a bounded chunk of the stream; a snapshot refresh reads
\* it up to the cycle's timestamp.
Build(w, upto) ==
    /\ cycle[w].pc = "build"
    /\ LET c == cycle[w] IN
       /\ upto \in c.from..c.new_ts
       /\ IF c.state.tag = "Backfilling" /\ c.from < c.new_ts
          THEN upto > c.from
          ELSE upto = c.new_ts
       /\ LET built == build_disk_index(SubSeq(log, c.from + 1, upto), c.previous)
              nothing == built.previous_segments = <<>> /\ built.new_segment = <<>>
          IN cycle' = [cycle EXCEPT ![w].pc = IF nothing THEN "persist" ELSE "upload",
                                    ![w].upto = upto,
                                    ![w].previous = built.previous_segments,
                                    ![w].new_segment = built.new_segment,
                                    ![w].tasks = built.previous_segments,
                                    ![w].pending = DOMAIN built.previous_segments]
    /\ UNCHANGED <<persisted, storage, log, nextId, pure>>

upload_finished(pending, new_segment) == pending = {} /\ new_segment = <<>>

\* Step 6: one previous segment's deletion bitset is uploaded.
UploadPreviousTask(w, i, ok) ==
    /\ cycle[w].pc = "upload"
    /\ i \in cycle[w].pending
    /\ LET c == cycle[w]
           segment == MutableFragmentedSegmentMetadata_upload_deleted_bitset(c.tasks[i])
           r == IF ok THEN Ok(segment) ELSE Err("StorageIO")
           results == Append(c.results, r)
           pending == c.pending \ {i}
       IN /\ storage' = IF ok THEN storage \cup {segment} ELSE storage
          /\ IF ~upload_previous_segments(results).ok
             THEN cycle' = [cycle EXCEPT ![w] = Idle("StorageIO")]
             ELSE cycle' = [cycle EXCEPT
                    ![w].pc = IF upload_finished(pending, c.new_segment)
                              THEN "persist" ELSE "upload",
                    ![w].results = results,
                    ![w].pending = pending]
    /\ UNCHANGED <<persisted, log, nextId, pure>>

\* Step 6: the new segment is uploaded under a fresh id.
UploadNewSegment(w, ok) ==
    /\ cycle[w].pc = "upload"
    /\ cycle[w].new_segment # <<>>
    /\ LET c == cycle[w]
           segment == upload_new_segment(Head(c.new_segment), nextId)
       IN IF ok
          THEN /\ nextId <= MaxDocs + MaxNewSegments
               /\ storage' = storage \cup {segment}
               /\ nextId' = nextId + 1
               /\ cycle' = [cycle EXCEPT
                    ![w].pc = IF upload_finished(c.pending, <<>>)
                              THEN "persist" ELSE "upload",
                    ![w].new_segment = <<>>,
                    ![w].uploaded_new = <<segment>>]
          ELSE /\ cycle' = [cycle EXCEPT ![w] = Idle("StorageIO")]
               /\ UNCHANGED <<storage, nextId>>
    /\ UNCHANGED <<persisted, log, pure>>

\* Steps 7, 8 and 9: aggregate the statistics, compose the new state, build
\* the new IndexConfig and compare-and-swap it over the version read.
Finish(w, layout) ==
    /\ cycle[w].pc = "persist"
    /\ LET c == cycle[w]
           uploaded == upload_previous_segments(c.results)
           segments == uploaded.val \o c.uploaded_new
           stats == aggregate_statistics(segments, Ok(VectorStatistics_default))
           new_state == transition(c.state, segments, c.upto, c.new_ts, layout)
           config == new_index_config(c.developer_config, new_state)
           written == compare_and_swap(persisted, c.read, config.val)
       IN IF ~stats.ok
          THEN /\ cycle' = [cycle EXCEPT ![w] = Idle("StatisticsAggregationFailure")]
               /\ UNCHANGED persisted
          ELSE IF ~config.ok
          THEN /\ cycle' = [cycle EXCEPT ![w] = Idle("SchemaViolation")]
               /\ UNCHANGED persisted
          ELSE IF ~written.ok
          THEN /\ cycle' = [cycle EXCEPT ![w] = Idle("WriteConflict")]
               /\ UNCHANGED persisted
          ELSE /\ persisted.rev < MaxWrites
               /\ persisted' = written.val
               /\ cycle' = [cycle EXCEPT ![w] = Idle("Ok")]
    /\ log' = IF persisted' # persisted THEN Append(log, IndexWrite) ELSE log
    /\ UNCHANGED <<storage, nextId, pure>>

\* Mutant: an abandoned upload checkpoints the segment list it was about to
\* upload.
Abandon_checkpointing(w) ==
    /\ cycle[w].pc \in {"download", "build", "upload", "persist"}
    /\ cycle' = [cycle EXCEPT ![w] = Idle("Abandoned")]
    /\ LET c == cycle[w]
           intended ==
                [i \in DOMAIN c.tasks |->
                    MutableFragmentedSegmentMetadata_upload_deleted_bitset(c.tasks[i])]
                \o [i \in DOMAIN c.new_segment |->
                    upload_new_segment(c.new_segment[i], nextId)]
           config == new_index_config(c.developer_config,
                        transition(c.state, intended, c.upto, c.new_ts, "MultiSegment"))
       IN IF c.pc = "upload" /\ persisted.rev < MaxWrites
          THEN persisted' = [rev |-> persisted.rev + 1, config |-> config.val]
          ELSE UNCHANGED persisted
    /\ UNCHANGED <<storage, log, nextId, pure>>

\* Section 5, cancellation: the cycle is abandoned at a suspension point.
Abandon(w) ==
    /\ cycle[w].pc \in {"download", "build", "upload", "persist"}
    /\ cycle' = [cycle EXCEPT ![w] = Idle("Abandoned")]
    /\ UNCHANGED <<persisted, storage, log, nextId, pure>>

(***************************************************************************)
(* The environment: committed document changes and another writer of the   *)
(* index record.                                                           *)
(***************************************************************************)
RECURSIVE live_documents(_)
live_documents(changes) ==
    IF changes = <<>> THEN {}
    ELSE LET before == live_documents(SubSeq(changes, 1, Len(changes) - 1))
             change == changes[Len(changes)]
         IN CASE change.op = "insert" -> before \cup {change.id}
              [] change.op = "delete" -> before \ {change.id}
              [] OTHER -> before

Changes ==
    [op : {"insert", "delete"}, id : DocIds] \cup {[op |-> "other", id |-> 0]}

\* The committed changes of the log other than writes of the index record.
document_log(changes) == SelectSeq(changes, LAMBDA change : change.op # "index")

commit(change, max_log) ==
    /\ Len(document_log(log)) < max_log
    /\ change.op = "insert" => change.id \notin live_documents(log)
    /\ change.op = "delete" => change.id \in live_documents(log)
    /\ log' = Append(log, change)
    /\ UNCHANGED <<persisted, storage, nextId, cycle, pure>>

Commit(change) == commit(change, MaxLog)

\* A schema migration replaces the index by one of another kind.
ChangeKind(kind) ==
    /\ persisted.config.kind = "Vector"
    /\ persisted.rev < MaxWrites
    /\ persisted' = [rev |-> persisted.rev + 1, config |-> [kind |-> kind]]
    /\ log' = Append(log, IndexWrite)
    /\ UNCHANGED <<storage, nextId, cycle, pure>>

(***************************************************************************)
(* Initial states: a new index, an index whose snapshot was written in a   *)
(* format this version does not know, and an index with a mis-migrated     *)
(* segment descriptor.                                                     *)
(***************************************************************************)
DeveloperConfig == [dimensions |-> 3, vector_field |-> "embedding"]

initial_segment(i) ==
    [id |-> i, num_vectors |-> 1, num_deleted |-> 0, docs |-> {i}, deleted |-> {}]

vector_config(on_disk_state) ==
    [kind |-> "Vector", on_disk_state |-> on_disk_state,
     developer_config |-> DeveloperConfig]

persisted_snapshot(tag, ts, data_tag, payload) ==
    [type |-> "VectorIndexState", tag |-> tag,
     inner |-> [type |-> "VectorIndexSnapshot",
                data |-> [type |-> "VectorIndexSnapshotData", tag |-> data_tag,
                          payload |-> payload],
                ts |-> ts]]

persisted_backfilling(segments, cursor, backfill_snapshot_ts) ==
    [type |-> "VectorIndexState", tag |-> "Backfilling",
     inner |-> [type |-> "VectorIndexBackfillState", segments |-> segments,
                cursor |-> cursor, backfill_snapshot_ts |-> backfill_snapshot_ts]]

inserted(n) == [i \in 1..n |-> [op |-> "insert", id |-> i]]

InitNew ==
    /\ persisted = [rev |-> 0, config |-> vector_config(persisted_backfilling(<<>>, 0, <<>>))]
    /\ storage = {}
    /\ log = <<>>

InitUnknown ==
    \E n \in 0..MaxDocs :
        /\ persisted = [rev |-> 0, config |-> vector_config(
                persisted_snapshot("SnapshottedAt", n, "Unknown",
                    [format |-> "unknown", segments |-> [i \in 1..n |-> initial_segment(i)]]))]
        /\ storage = {}
        /\ log = Append(inserted(n), IndexWrite)

\* The descriptor counts fewer vectors than its bitset marks deleted.
mis_migrated_segment ==
    [id |-> 1, num_vectors |-> 0, num_deleted |-> 1, docs |-> {1}, deleted |-> {1}]

InitMisMigrated ==
    /\ persisted = [rev |-> 0, config |-> vector_config(
            persisted_snapshot("SnapshottedAt", 2, "MultiSegment",
                <<mis_migrated_segment>>))]
    /\ storage = {mis_migrated_segment}
    /\ log = <<[op |-> "insert", id |-> 1], [op |-> "delete", id |-> 1], IndexWrite>>

Init ==
    /\ InitNew \/ InitUnknown \/ InitMisMigrated
    /\ nextId = MaxDocs + 1
    /\ cycle = [w \in Workers |-> Idle("none")]
    /\ pure = [spec |-> "Spec"]

Next ==
    \/ \E w \in Workers : Load(w)
    \/ \E w \in Workers, i \in 1..(MaxDocs + MaxNewSegments), ok \in BOOLEAN :
            DownloadTask(w, i, ok)
    \/ \E w \in Workers, upto \in 0..Len(log) : Build(w, upto)
    \/ \E w \in Workers, i \in 1..(MaxDocs + MaxNewSegments), ok \in BOOLEAN :
            UploadPreviousTask(w, i, ok)
    \/ \E w \in Workers, ok \in BOOLEAN : UploadNewSegment(w, ok)
    \/ \E w \in Workers, layout \in Layouts : Finish(w, layout)
    \/ \E w \in Workers : Abandon(w)
    \/ \E change \in Changes : Commit(change)
    \/ \E kind \in {"Database", "Search"} : ChangeKind(kind)

Spec == Init /\ [][Next]_vars

(***************************************************************************)
(* SoloSpec: the build engine under the scheduler's single-writer          *)
(* guarantee of section 5, one build cycle at a time on the index, over a  *)
(* longer document log and starting also from a serving snapshot of        *)
(* current version.                                                        *)
(***************************************************************************)
SoloWorker == CHOOSE w \in Workers : TRUE

\* A segment holding the documents `docs`, none of them deleted.
segment_of(segment_id, docs) ==
    [id |-> segment_id, num_vectors |-> Cardinality(docs), num_deleted |-> 0,
     docs |-> docs, deleted |-> {}]

\* The serving snapshot of n inserted documents: in one segment, or in one
\* segment per document.
InitSnapshotted ==
    \E n \in 1..MaxDocs :
        \E segments \in {<<segment_of(1, 1..n)>>, [i \in 1..n |-> initial_segment(i)]} :
            /\ persisted = [rev |-> 0, config |-> vector_config(
                    persisted_snapshot("SnapshottedAt", n, "MultiSegment", segments))]
            /\ storage = {segments[i] : i \in DOMAIN segments}
            /\ log = Append(inserted(n), IndexWrite)

SoloInit ==
    /\ InitSnapshotted
    /\ nextId = MaxDocs + 1
    /\ cycle = [w \in Workers |-> Idle("none")]
    /\ pure = [spec |-> "Solo"]

SoloCommit(change) == commit(change, MaxSoloLog)

SoloNext ==
    \/ Load(SoloWorker)
    \/ \E i \in 1..(MaxDocs + MaxNewSegments), ok \in BOOLEAN :
            DownloadTask(SoloWorker, i, ok)
    \/ \E upto \in 0..Len(log) : Build(SoloWorker, upto)
    \/ \E i \in 1..(MaxDocs + MaxNewSegments), ok \in BOOLEAN :
            UploadPreviousTask(SoloWorker, i, ok)
    \/ \E ok \in BOOLEAN : UploadNewSegment(SoloWorker, ok)
    \/ \E layout \in Layouts : Finish(SoloWorker, layout)
    \/ Abandon(SoloWorker)
    \/ \E change \in Changes : SoloCommit(change)
    \/ \E kind \in {"Database", "Search"} : ChangeKind(kind)

SoloSpec == SoloInit /\ [][SoloNext]_vars

(***************************************************************************)
(* The pipeline's variables while a pure-function specification runs.      *)
(***************************************************************************)
PipelineAtRest ==
    /\ persisted = [rev |-> 0, config |-> vector_config(persisted_backfilling(<<>>, 0, <<>>))]
    /\ storage = {}
    /\ log = <<>>
    /\ nextId = MaxDocs + 1
    /\ cycle = [w \in Workers |-> Idle("none")]

(***************************************************************************)
(* ConvSpec: the conversions between the persisted and the working state,  *)
(* applied to every state of a bounded set.                                *)
(***************************************************************************)
RECURSIVE SeqsUpTo(_, _)
\* The sequences over S of length at most n.
SeqsUpTo(S, n) ==
    IF n = 0 THEN {<<>>}
    ELSE LET shorter == SeqsUpTo(S, n - 1) IN
         shorter \cup {Append(q, x) : q \in shorter, x \in S}

SegmentPool ==
    {initial_segment(1),
     [id |-> 2, num_vectors |-> 2, num_deleted |-> 1, docs |-> {1, 2}, deleted |-> {2}]}

SegmentLists == SeqsUpTo(SegmentPool, MaxSegments)

Timestamps == 0..MaxLog

OpaquePayloads == {[format |-> "unknown", segments |-> l] : l \in SegmentLists}

PersistedSnapshotData ==
    {[type |-> "VectorIndexSnapshotData", tag |-> "MultiSegment", payload |-> l] :
        l \in SegmentLists}
    \cup {[type |-> "VectorIndexSnapshotData", tag |-> "Unknown", payload |-> o] :
        o \in OpaquePayloads}

PersistedStates ==
    {persisted_backfilling(l, c, b) :
        l \in SegmentLists, c \in Timestamps, b \in {<<>>} \cup {<<t>> : t \in Timestamps}}
    \cup {[type |-> "VectorIndexState", tag |-> g,
           inner |-> [type |-> "VectorIndexSnapshot", data |-> d, ts |-> t]] :
            g \in {"Backfilled", "SnapshottedAt"}, d \in PersistedSnapshotData,
            t \in Timestamps}

\* The working states no persisted state converts to: a snapshot in the
\* single-segment layout of the non-fragmented index kinds.
SingleSegmentStates ==
    {[type |-> "SearchOnDiskState", tag |-> g,
      inner |-> [type |-> "SearchSnapshot", ts |-> t,
                 data |-> [type |-> "SnapshotData", tag |-> "SingleSegment",
                           payload |-> "object_key"]]] :
        g \in {"Backfilled", "SnapshottedAt"}, t \in Timestamps}

ConvInit ==
    /\ PipelineAtRest
    /\ \/ \E s \in PersistedStates :
            pure = [spec |-> "Conv", pc |-> "persisted", input |-> s,
                    working |-> <<>>, output |-> <<>>, config |-> <<>>]
       \/ \E s \in SingleSegmentStates :
            pure = [spec |-> "Conv", pc |-> "working", input |-> <<>>,
                    working |-> s, output |-> <<>>, config |-> <<>>]

\* from_persisted
ConvFromPersisted ==
    /\ pure.spec = "Conv" /\ pure.pc = "persisted"
    /\ pure' = [pure EXCEPT !.pc = "working",
                            !.working = SearchOnDiskState_from(pure.input)]
    /\ UNCHANGED <<persisted, storage, log, nextId, cycle>>

\* to_persisted
ConvToPersisted ==
    /\ pure.spec = "Conv" /\ pure.pc = "working"
    /\ pure' = [pure EXCEPT !.pc = "converted",
                            !.output = VectorIndexState_try_from(pure.working)]
    /\ UNCHANGED <<persisted, storage, log, nextId, cycle>>

ConvNewIndexConfig ==
    /\ pure.spec = "Conv" /\ pure.pc = "converted"
    /\ pure' = [pure EXCEPT !.pc = "done",
                            !.config = new_index_config(DeveloperConfig, pure.working)]
    /\ UNCHANGED <<persisted, storage, log, nextId, cycle>>

ConvNext == ConvFromPersisted \/ ConvToPersisted \/ ConvNewIndexConfig

ConvSpec == ConvInit /\ [][ConvNext]_vars

(***************************************************************************)
(* StatsSpec: Statistics::add on every triple of a bounded set of results, *)
(* with and without overflow checks.                                       *)
(***************************************************************************)
U32Max == [i \in 1..U32Limbs |-> LimbBase - 1]
U64Max == [i \in 1..U64Limbs |-> LimbBase - 1]

U32Values ==
    {U32(n) : n \in 0..MaxStat}
    \cup {[U32Max EXCEPT ![1] = @ - n] : n \in 0..MaxStat}

U64Values == {U64(n) : n \in 0..MaxStat} \cup {U64Max}

StatisticsValues == [num_vectors : U32Values, non_deleted_vectors : U64Values]

StatisticsResults ==
    {Ok(v) : v \in StatisticsValues}
    \cup {Err("statistics of segment 1"), Err("statistics of segment 2")}

\* add applied to the values of two expressions: a panic in either operand
\* ends the evaluation before add is called.
add_of(x, y, overflow_checks) ==
    IF IsPanic(x) THEN x
    ELSE IF IsPanic(y) THEN y
    ELSE add(x, y, overflow_checks)

StatsInit ==
    /\ PipelineAtRest
    /\ \E a \in StatisticsResults, b \in StatisticsResults, c \in StatisticsResults,
          overflow_checks \in BOOLEAN :
            pure = [spec |-> "Stats", pc |-> "start", a |-> a, b |-> b, c |-> c,
                    overflow_checks |-> overflow_checks,
                    ab |-> <<>>, ba |-> <<>>, bc |-> <<>>, ab_c |-> <<>>, a_bc |-> <<>>]

StatsAddPairs ==
    /\ pure.spec = "Stats" /\ pure.pc = "start"
    /\ pure' = [pure EXCEPT !.pc = "pairs",
                            !.ab = add(pure.a, pure.b, pure.overflow_checks),
                            !.ba = add(pure.b, pure.a, pure.overflow_checks),
                            !.bc = add(pure.b, pure.c, pure.overflow_checks)]
    /\ UNCHANGED <<persisted, storage, log, nextId, cycle>>

StatsAddTriples ==
    /\ pure.spec = "Stats" /\ pure.pc = "pairs"
    /\ pure' = [pure EXCEPT !.pc = "done",
                            !.ab_c = add_of(pure.ab, pure.c, pure.overflow_checks),
                            !.a_bc = add_of(pure.a, pure.bc, pure.overflow_checks)]
    /\ UNCHANGED <<persisted, storage, log, nextId, cycle>>

StatsNext == StatsAddPairs \/ StatsAddTriples

StatsSpec == StatsInit /\ [][StatsNext]_vars

(***************************************************************************)
(* MetaSpec: the two readers of a persisted index record, extract_metadata *)
(* and get_config, applied to every IndexConfig of a bounded set: Vector   *)
(* configs in every persisted state, and Database and Search configs.      *)
(***************************************************************************)
DeveloperConfigs == {DeveloperConfig, [dimensions |-> 4, vector_field |-> "v"]}

OtherKindConfigs ==
    [kind : {"Database", "Search"},
     on_disk_state : {"Backfilling", "Enabled"},
     developer_config : {"fields"}]

IndexConfigs ==
    {[kind |-> "Vector", on_disk_state |-> s, developer_config |-> d] :
        s \in PersistedStates, d \in DeveloperConfigs}
    \cup OtherKindConfigs

MetaInit ==
    /\ PipelineAtRest
    /\ \E c \in IndexConfigs :
            pure = [spec |-> "Meta", pc |-> "record", record |-> c,
                    extracted |-> <<>>, parsed |-> <<>>]

MetaExtractMetadata ==
    /\ pure.spec = "Meta" /\ pure.pc = "record"
    /\ pure' = [pure EXCEPT !.pc = "extracted",
                            !.extracted = extract_metadata([config |-> pure.record])]
    /\ UNCHANGED <<persisted, storage, log, nextId, cycle>>

MetaGetConfig ==
    /\ pure.spec = "Meta" /\ pure.pc = "extracted"
    /\ pure' = [pure EXCEPT !.pc = "done", !.parsed = get_config(pure.record)]
    /\ UNCHANGED <<persisted, storage, log, nextId, cycle>>

MetaNext == MetaExtractMetadata \/ MetaGetConfig

MetaSpec == MetaInit /\ [][MetaNext]_vars

(***************************************************************************)
(* Definitions shared by the properties below.                             *)
(***************************************************************************)
\* The segments a reader of an IndexConfig can see.
config_segments(config) ==
    IF config.kind # "Vector" THEN <<>>
    ELSE LET state == config.on_disk_state IN
         IF state.tag = "Backfilling" THEN state.inner.segments
         ELSE IF state.inner.data.tag = "MultiSegment" THEN state.inner.data.payload
         ELSE <<>>

segment_ids(segments) == {segments[i].id : i \in DOMAIN segments}

\* Worker w takes a step of its build cycle.
Steps(w) == cycle'[w] # cycle[w]

\* Worker w's cycle ends with a successful compare-and-swap.
Succeeds(w) == Steps(w) /\ cycle[w].pc = "persist" /\ cycle'[w].outcome = "Ok"

FatalOutcomes == {"IndexKindChanged", "SchemaViolation", "StatisticsAggregationFailure"}

\* Worker w's cycle ends on a fatal condition.
FatalAbort(w) ==
    Steps(w) /\ cycle'[w].pc = "idle" /\ cycle'[w].outcome \in FatalOutcomes

\* The segments worker w's cycle holds after its uploads.
cycle_segments(w) ==
    [k \in DOMAIN cycle[w].results |-> cycle[w].results[k].val] \o cycle[w].uploaded_new

\* a <= b for two unsigned integers of the same width.
RECURSIVE limbs_leq(_, _)
limbs_leq(a, b) ==
    IF a = <<>> THEN TRUE
    ELSE LET n == Len(a) IN
         IF a[n] # b[n] THEN a[n] < b[n]
         ELSE limbs_leq(SubSeq(a, 1, n - 1), SubSeq(b, 1, n - 1))

\* The version of the record worker w's cycle read in step 1 (in step 1
\* itself, the record it is reading).
version_read(w) == IF cycle[w].pc = "idle" THEN persisted ELSE cycle[w].read

(***************************************************************************)
(* C1. State-machine reachability: a successful build cycle takes a        *)
(* Backfilling index to Backfilling with the same or an advanced cursor or *)
(* to Backfilled, and a Backfilled or SnapshottedAt index to SnapshottedAt;*)
(* no build cycle moves an index to Backfilling from another state.        *)
(***************************************************************************)
C1_AllowedTransition(old, new) ==
    /\ old.tag = "Backfilling" =>
            \/ new.tag = "Backfilling" /\ new.inner.cursor >= old.inner.cursor
            \/ new.tag = "Backfilled"
    /\ old.tag \in {"Backfilled", "SnapshottedAt"} => new.tag = "SnapshottedAt"
    /\ new.tag = "Backfilling" => old.tag = "Backfilling"

C1_StateMachineReachability ==
    [][\A w \in Workers :
        Succeeds(w) =>
            /\ persisted.config.kind = "Vector"
            /\ persisted'.config.kind = "Vector"
            /\ C1_AllowedTransition(persisted.config.on_disk_state,
                                    persisted'.config.on_disk_state)]_vars

\* Two successful cycles took a new index from Backfilling to Backfilling
\* with an advanced cursor and on to Backfilled.
C1_Witness ==
    /\ persisted.rev = 2
    /\ persisted.config.kind = "Vector"
    /\ persisted.config.on_disk_state.tag = "Backfilled"
    /\ \E w \in Workers : cycle[w].pc = "idle" /\ cycle[w].outcome = "Ok"

(***************************************************************************)
(* C2. Converting a working state to the persisted state, and so           *)
(* new_index_config, fails exactly for the Backfilled and SnapshottedAt    *)
(* states whose SnapshotData is SingleSegment, and then yields no          *)
(* IndexConfig; it succeeds for every Backfilling state and for every      *)
(* snapshot whose data is MultiSegment or Unknown.                         *)
(***************************************************************************)
C2_IsSingleSegment(state) ==
    /\ state.tag \in {"Backfilled", "SnapshottedAt"}
    /\ state.inner.data.tag = "SingleSegment"

C2_SingleSegmentFailsConversion ==
    (pure.spec = "Conv" /\ pure.pc = "done") =>
        IF C2_IsSingleSegment(pure.working)
        THEN ~pure.output.ok /\ ~pure.config.ok
        ELSE /\ pure.output.ok /\ pure.config.ok
             /\ pure.config.val.on_disk_state = pure.output.val

C2_Witness ==
    /\ pure.spec = "Conv" /\ pure.pc = "done"
    /\ pure.working.tag = "SnapshottedAt"
    /\ pure.working.inner.data.tag = "SingleSegment"
    /\ ~pure.output.ok /\ ~pure.config.ok

(***************************************************************************)
(* C3 as stated: every fatal condition aborts the cycle with the persisted *)
(* IndexConfig exactly equal to the version read in step 1.                *)
(***************************************************************************)
C3_AbortLeavesVersionRead ==
    [][\A w \in Workers : FatalAbort(w) => persisted' = version_read(w)]_vars

(***************************************************************************)
(* C3, amended.  A fatal condition (IndexKindChanged at load,              *)
(* SchemaViolation at conversion, statistics aggregation failure) aborts   *)
(* the cycle without changing the persisted IndexConfig, which is equal to *)
(* the version read in step 1 unless another writer replaced that version  *)
(* in the meantime.  The only step of a build cycle that changes the       *)
(* persisted IndexConfig is the final compare-and-swap, and it is taken    *)
(* only by a cycle that read a Vector record, whose segments all have      *)
(* statistics and whose new state converts.                                *)
(***************************************************************************)
C3_FatalAbortDoesNotWrite ==
    [][\A w \in Workers :
        /\ FatalAbort(w) =>
                /\ persisted' = persisted
                /\ persisted.rev = version_read(w).rev => persisted' = version_read(w)
        /\ (Steps(w) /\ persisted' # persisted) =>
                /\ Succeeds(w)
                /\ cycle[w].read.config.kind = "Vector"
                /\ \A k \in DOMAIN cycle_segments(w) :
                        non_deleted_vectors(cycle_segments(w)[k]).ok
                /\ persisted'.config.kind = "Vector"
                /\ persisted'.config.on_disk_state.tag # "Backfilling" =>
                        persisted'.config.on_disk_state.inner.data.tag = "MultiSegment"]_vars

\* A cycle ended on a statistics aggregation failure after the record it had
\* read was replaced.
C3_Witness ==
    \E w \in Workers :
        /\ cycle[w].pc = "idle"
        /\ cycle[w].outcome = "StatisticsAggregationFailure"
        /\ persisted.rev > 0

(***************************************************************************)
(* C4. When the persisted IndexConfig was changed by another writer        *)
(* between a cycle's load and its persist step, the cycle's write is not   *)
(* applied and the cycle ends in WriteConflict (unless it is abandoned or  *)
(* fails before the write); no cycle overwrites a version it did not read. *)
(***************************************************************************)
C4_NoBlindWrite ==
    [][\A w \in Workers :
        /\ (Steps(w) /\ cycle[w].pc = "persist" /\ persisted # cycle[w].read) =>
                /\ persisted' = persisted
                /\ cycle'[w].pc = "idle"
                /\ cycle'[w].outcome \in
                        {"WriteConflict", "Abandoned", "SchemaViolation",
                         "StatisticsAggregationFailure"}
        /\ (Steps(w) /\ persisted' # persisted) =>
                /\ persisted = cycle[w].read
                /\ persisted'.rev = cycle[w].read.rev + 1]_vars

\* Two cycles ran on the same index: one wrote, the other met the conflict.
C4_Witness ==
    \E w \in Workers, v \in Workers :
        /\ w # v
        /\ cycle[w].pc = "idle" /\ cycle[w].outcome = "WriteConflict"
        /\ cycle[v].pc = "idle" /\ cycle[v].outcome = "Ok"

(***************************************************************************)
(* C5. A build cycle abandoned before step 9 leaves the persisted          *)
(* IndexConfig unchanged, as does every step before step 9; a reader       *)
(* always finds an IndexConfig all of whose segments are completely        *)
(* uploaded.                                                               *)
(***************************************************************************)
C5_ReaderSafe ==
    \A k \in DOMAIN config_segments(persisted.config) :
        config_segments(persisted.config)[k] \in storage

C5_AbandonedCycleInvisible ==
    /\ []C5_ReaderSafe
    /\ [][\A w \in Workers :
            (Steps(w) /\ (cycle'[w].outcome = "Abandoned" \/ cycle[w].pc # "persist"))
                => persisted' = persisted]_vars

\* A cycle was abandoned and left an uploaded object no IndexConfig refers to.
C5_Witness ==
    \E w \in Workers :
        /\ cycle[w].pc = "idle" /\ cycle[w].outcome = "Abandoned"
        /\ \E segment \in storage :
                \A k \in DOMAIN config_segments(persisted.config) :
                    config_segments(persisted.config)[k] # segment

(***************************************************************************)
(* C6. Round trip of the persisted state: from_persisted is total, and     *)
(* to_persisted of its result succeeds and is the state started from: the  *)
(* same lifecycle variant, segments in the same order, cursor,             *)
(* backfill_snapshot_ts and snapshot ts, and an Unknown payload unchanged. *)
(***************************************************************************)
C6_RoundTrip ==
    (pure.spec = "Conv" /\ pure.pc \in {"converted", "done"} /\ pure.input # <<>>) =>
        /\ pure.working.type = "SearchOnDiskState"
        /\ pure.working.tag = pure.input.tag
        /\ pure.output.ok
        /\ pure.output.val = pure.input
        /\ pure.input.tag = "Backfilling" =>
                /\ pure.working.inner.segments = pure.input.inner.segments
                /\ pure.working.inner.cursor = pure.input.inner.cursor
                /\ pure.working.inner.backfill_snapshot_ts =
                        pure.input.inner.backfill_snapshot_ts
        /\ pure.input.tag # "Backfilling" =>
                /\ pure.working.inner.ts = pure.input.inner.ts
                /\ pure.working.inner.data.tag = pure.input.inner.data.tag
                /\ pure.working.inner.data.payload = pure.input.inner.data.payload

C6_Witness ==
    /\ pure.spec = "Conv" /\ pure.pc = "done"
    /\ pure.input # <<>>
    /\ pure.input.tag = "SnapshottedAt"
    /\ pure.input.inner.data.tag = "Unknown"
    /\ Len(pure.input.inner.data.payload.segments) = MaxSegments
    /\ pure.output = Ok(pure.input)

(***************************************************************************)
(* C7. When is_version_current is false for the persisted snapshot, the    *)
(* cycle downloads no previous segment, and the state it persists holds    *)
(* none of the stale snapshot's segments, however many there were.         *)
(***************************************************************************)
C7_Stale(w) ==
    /\ cycle[w].pc # "idle"
    /\ cycle[w].state.tag # "Backfilling"
    /\ ~SnapshotData_is_version_current(cycle[w].state.inner.data)

C7_StaleVersionRebuilds ==
    /\ [](\A w \in Workers :
            C7_Stale(w) =>
                /\ cycle[w].pc # "download"
                /\ cycle[w].tasks = <<>>
                /\ cycle[w].previous = <<>>
                /\ cycle[w].from = 0)
    /\ [][\A w \in Workers :
            (C7_Stale(w) /\ Succeeds(w)) =>
                segment_ids(config_segments(persisted'.config))
                    \cap segment_ids(SnapshotData_segments(cycle[w].state.inner.data))
                = {}]_vars

\* A cycle on a stale snapshot of MaxDocs segments reached its persist step
\* with a freshly built segment and nothing downloaded.
C7_Witness ==
    \E w \in Workers :
        /\ C7_Stale(w)
        /\ cycle[w].pc = "persist"
        /\ Len(SnapshotData_segments(cycle[w].state.inner.data)) = MaxDocs
        /\ cycle[w].uploaded_new # <<>>
        /\ cycle[w].results = <<>>

(***************************************************************************)
(* C8. Tombstone monotonicity: marking a document that is already marked   *)
(* leaves PreviousSegments unchanged, and the num_deleted of every         *)
(* descriptor a cycle uploads is at least that of the descriptor it        *)
(* downloaded.                                                             *)
(***************************************************************************)
C8_TombstoneMonotonicity ==
    \A w \in Workers :
        /\ \A d \in DocIds :
                LET marked == maybe_delete_document(cycle[w].previous, d) IN
                maybe_delete_document(marked, d) = marked
        /\ cycle[w].pc \in {"upload", "persist"} =>
                \A k \in DOMAIN cycle[w].results :
                    cycle[w].results[k].ok =>
                        \E i \in DOMAIN cycle[w].tasks :
                            /\ id(cycle[w].tasks[i].segment) = id(cycle[w].results[k].val)
                            /\ limbs_leq(num_deleted(cycle[w].tasks[i].segment),
                                         num_deleted(cycle[w].results[k].val))

\* A cycle marked a document and uploaded a descriptor with a larger
\* num_deleted than the one it downloaded.
C8_Witness ==
    \E w \in Workers :
        /\ cycle[w].pc = "persist"
        /\ \E k \in DOMAIN cycle[w].results, i \in DOMAIN cycle[w].tasks :
                /\ cycle[w].results[k].ok
                /\ cycle[w].tasks[i].segment.id = cycle[w].results[k].val.id
                /\ cycle[w].results[k].val.num_deleted
                        > cycle[w].tasks[i].segment.num_deleted

(***************************************************************************)
(* C9. Statistics monoid laws: for valid a, b, c, add is associative and   *)
(* commutative; add(a, Err) is Err and add(Err, b) is Err.                 *)
(***************************************************************************)
C9_IsErr(r) == ~r.ok /\ ~IsPanic(r)

C9_MonoidLaws ==
    (pure.spec = "Stats" /\ pure.pc = "done") =>
        /\ (pure.a.ok /\ pure.b.ok /\ pure.c.ok) =>
                /\ pure.ab_c = pure.a_bc
                /\ pure.ab = pure.ba
        /\ (pure.a.ok /\ ~pure.b.ok) => C9_IsErr(pure.ab)
        /\ (~pure.a.ok /\ pure.b.ok) => C9_IsErr(pure.ab)

C9_Witness ==
    /\ pure.spec = "Stats" /\ pure.pc = "done"
    /\ pure.a.ok /\ pure.b.ok /\ pure.c.ok
    /\ pure.a # pure.b /\ pure.b # pure.c /\ pure.a # pure.c
    /\ pure.ab_c.ok
    /\ pure.ab_c.val.num_vectors = U32Max
    /\ pure.ab_c = pure.a_bc

(***************************************************************************)
(* C10. Statistics::add propagates the first failure: with exactly one     *)
(* failed input the result is that failure, and with two failed inputs it  *)
(* is the failure of the first argument.                                   *)
(***************************************************************************)
C10_FirstFailurePropagates ==
    (pure.spec = "Stats" /\ pure.pc = "done") =>
        /\ (~pure.a.ok /\ pure.b.ok) => pure.ab = pure.a
        /\ (pure.a.ok /\ ~pure.b.ok) => pure.ab = pure.b
        /\ (~pure.a.ok /\ ~pure.b.ok) => pure.ab = pure.a

(***************************************************************************)
(* C11. extract_metadata fails with the index-kind-changed error if and    *)
(* only if the record's config is Database or Search; for a Vector record  *)
(* it succeeds with the record's developer_config and its on_disk_state in *)
(* the same lifecycle variant and with the same contents.                  *)
(***************************************************************************)
C11_SameContents(stored, working) ==
    /\ working.type = "SearchOnDiskState"
    /\ working.tag = stored.tag
    /\ stored.tag = "Backfilling" =>
            /\ working.inner.segments = stored.inner.segments
            /\ working.inner.cursor = stored.inner.cursor
            /\ working.inner.backfill_snapshot_ts = stored.inner.backfill_snapshot_ts
    /\ stored.tag # "Backfilling" =>
            /\ working.inner.ts = stored.inner.ts
            /\ working.inner.data.tag = stored.inner.data.tag
            /\ working.inner.data.payload = stored.inner.data.payload

C11_ExtractMetadataContract ==
    (pure.spec = "Meta" /\ pure.pc \in {"extracted", "done"}) =>
        /\ ~pure.extracted.ok <=> pure.record.kind \in {"Database", "Search"}
        /\ ~pure.extracted.ok <=> pure.record.kind # "Vector"
        /\ ~pure.extracted.ok => pure.extracted = Err("Index type changed!")
        /\ pure.record.kind = "Vector" =>
                /\ pure.extracted.ok
                /\ pure.extracted.val.developer_config = pure.record.developer_config
                /\ C11_SameContents(pure.record.on_disk_state,
                                    pure.extracted.val.on_disk_state)

\* extract_metadata was applied to a Database record and failed.
C11_Witness ==
    /\ pure.spec = "Meta" /\ pure.pc = "extracted"
    /\ pure.record.kind = "Database"
    /\ pure.extracted = Err("Index type changed!")

(***************************************************************************)
(* C12. Idempotent no-op cycle: a build cycle on a snapshotted index whose *)
(* log range holds no document change persists an IndexConfig with the     *)
(* same segment list, descriptor by descriptor in the same order, and the  *)
(* same aggregated statistics; only the lifecycle variant's timestamp      *)
(* moves.                                                                  *)
(***************************************************************************)
C12_NoOp(w) ==
    /\ cycle[w].state.tag \in {"Backfilled", "SnapshottedAt"}
    /\ is_version_current(cycle[w].state.inner)
    /\ \A i \in (cycle[w].from + 1)..cycle[w].upto : log[i].op \notin {"insert", "delete"}

C12_NoOpCycleIdentity ==
    [][\A w \in Workers :
        (Succeeds(w) /\ C12_NoOp(w)) =>
            LET before == SnapshotData_segments(cycle[w].state.inner.data)
                after == config_segments(persisted'.config)
            IN /\ after = before
               /\ aggregate_statistics(after, Ok(VectorStatistics_default))
                    = aggregate_statistics(before, Ok(VectorStatistics_default))
               /\ persisted'.config.developer_config = cycle[w].developer_config]_vars

(***************************************************************************)
(* C13. Delete-only cycle: from SnapshottedAt with existing segments, a    *)
(* cycle whose document changes are only k deletes of distinct ids, each   *)
(* held and not yet deleted in an existing segment, persists SnapshottedAt *)
(* with the same segment ids and no new segment, and the num_deleted of    *)
(* every segment is increased by exactly the number of deletes that        *)
(* reference its not yet deleted documents.                                *)
(***************************************************************************)
\* The positions of the log worker w's cycle has read.
C13_Range(w) == (cycle[w].from + 1)..cycle[w].upto

C13_Deleted(w) == {log[i].id : i \in {j \in C13_Range(w) : log[j].op = "delete"}}

C13_DeleteOnly(w) ==
    LET before == SnapshotData_segments(cycle[w].state.inner.data) IN
    /\ cycle[w].state.tag = "SnapshottedAt"
    /\ is_version_current(cycle[w].state.inner)
    /\ before # <<>>
    /\ C13_Deleted(w) # {}
    /\ \A i \in C13_Range(w) : log[i].op # "insert"
    /\ \A i \in C13_Range(w), j \in C13_Range(w) :
            (i # j /\ log[i].op = "delete" /\ log[j].op = "delete") => log[i].id # log[j].id
    /\ \A d \in C13_Deleted(w) :
            \E k \in DOMAIN before : d \in before[k].docs \ before[k].deleted

C13_DeleteOnlyCycle ==
    [][\A w \in Workers :
        (Succeeds(w) /\ C13_DeleteOnly(w)) =>
            LET before == SnapshotData_segments(cycle[w].state.inner.data)
                after == config_segments(persisted'.config)
            IN /\ persisted'.config.on_disk_state.tag = "SnapshottedAt"
               /\ cycle[w].uploaded_new = <<>>
               /\ Len(after) = Len(before)
               /\ segment_ids(after) = segment_ids(before)
               /\ \A k \in DOMAIN before :
                    \E m \in DOMAIN after :
                        /\ id(after[m]) = id(before[k])
                        /\ after[m].num_deleted = before[k].num_deleted
                                + Cardinality(C13_Deleted(w)
                                        \cap (before[k].docs \ before[k].deleted))]_vars

\* A cycle over two deletes both referencing the one segment of the snapshot
\* has persisted that segment with num_deleted 2, and no segment was built.
C13_Witness ==
    /\ persisted.rev = 1
    /\ persisted.config.kind = "Vector"
    /\ persisted.config.on_disk_state.tag = "SnapshottedAt"
    /\ Len(config_segments(persisted.config)) = 1
    /\ config_segments(persisted.config)[1].id = 1
    /\ config_segments(persisted.config)[1].num_vectors = 2
    /\ config_segments(persisted.config)[1].num_deleted = 2
    /\ nextId = MaxDocs + 1
    /\ document_log(log) = inserted(2) \o [i \in 1..2 |-> [op |-> "delete", id |-> i]]
    /\ Len(log) = 6
    /\ log[4].op = "delete" /\ log[5].op = "delete"
    /\ cycle[SoloWorker].outcome = "Ok"

(***************************************************************************)
(* C14. Pure insert backfill: from Backfilling with no segment and cursor  *)
(* 0, a cycle that drains a log of n >= 1 new documents persists           *)
(* Backfilled with exactly one segment, whose statistics are               *)
(* {num_vectors: n, non_deleted_vectors: n}.                               *)
(***************************************************************************)
C14_PureInsertBackfill(w) ==
    /\ cycle[w].state.tag = "Backfilling"
    /\ cycle[w].state.inner.segments = <<>>
    /\ cycle[w].state.inner.cursor = 0
    /\ cycle[w].from = 0
    /\ cycle[w].upto = cycle[w].new_ts
    /\ cycle[w].upto >= 1
    /\ \A i \in 1..cycle[w].upto : log[i].op = "insert"
    /\ \A i \in 1..cycle[w].upto, j \in 1..cycle[w].upto : i # j => log[i].id # log[j].id

C14_InsertBackfill ==
    [][\A w \in Workers :
        (Succeeds(w) /\ C14_PureInsertBackfill(w)) =>
            LET after == config_segments(persisted'.config) IN
            /\ persisted'.config.on_disk_state.tag = "Backfilled"
            /\ persisted'.config.on_disk_state.inner.data.tag = "MultiSegment"
            /\ Len(after) = 1
            /\ statistics(after[1])
                    = Ok([num_vectors |-> U32(cycle[w].upto),
                          non_deleted_vectors |-> U64(cycle[w].upto)])
            /\ num_documents(statistics(after[1]).val) = U64(cycle[w].upto)
            /\ num_non_deleted_documents(statistics(after[1]).val) = U64(cycle[w].upto)]_vars

\* A new index was backfilled in one cycle over MaxDocs inserted documents.
C14_Witness ==
    /\ persisted.rev = 1
    /\ persisted.config.kind = "Vector"
    /\ persisted.config.on_disk_state.tag = "Backfilled"
    /\ Len(config_segments(persisted.config)) = 1
    /\ config_segments(persisted.config)[1].docs = DocIds
    /\ statistics(config_segments(persisted.config)[1]).val.num_vectors = U32(MaxDocs)
    /\ log = Append(inserted(MaxDocs), IndexWrite)

(***************************************************************************)
(* C15. Bounded fan-out of the previous segments: under every completion   *)
(* order of the tasks, download_previous_segments and                      *)
(* upload_previous_segments either fail as a whole as soon as one task     *)
(* fails, leaving no partial result, or return exactly one entry per input *)
(* segment under that segment's id: the ids returned are the ids passed    *)
(* in.                                                                     *)
(***************************************************************************)
\* Each element of `inputs` has exactly one element of `outputs` of its id.
C15_OnePerInput(inputs, outputs) ==
    /\ Len(outputs) = Len(inputs)
    /\ segment_ids(outputs) = segment_ids(inputs)
    /\ \A i \in DOMAIN inputs :
            Cardinality({k \in DOMAIN outputs : outputs[k].id = inputs[i].id}) = 1

C15_Downloaded(w) == [k \in DOMAIN cycle[w].previous |-> cycle[w].previous[k].segment]

C15_FanOut ==
    /\ [](\A w \in Workers :
            /\ \A k \in DOMAIN cycle[w].results : cycle[w].results[k].ok
            /\ cycle[w].pc \in {"build", "upload", "persist"} =>
                    C15_OnePerInput(previous_segment_list(cycle[w].state), C15_Downloaded(w))
            /\ cycle[w].pc = "persist" =>
                    /\ upload_previous_segments(cycle[w].results).ok
                    /\ C15_OnePerInput(C15_Downloaded(w),
                                       upload_previous_segments(cycle[w].results).val))
    /\ [][\A w \in Workers :
            (Steps(w) /\ cycle[w].pc \in {"download", "upload"}
                /\ cycle'[w].outcome = "StorageIO") =>
                    /\ cycle'[w] = Idle("StorageIO")
                    /\ persisted' = persisted]_vars

\* Both fan-outs of a cycle on two segments succeeded, the upload of the
\* second segment completing before the upload of the first.
C15_Witness ==
    \E w \in Workers :
        /\ cycle[w].pc = "persist"
        /\ Len(cycle[w].previous) = 2
        /\ Len(cycle[w].results) = 2
        /\ cycle[w].results[1].val.id = cycle[w].previous[2].segment.id
        /\ cycle[w].results[2].val.id = cycle[w].previous[1].segment.id

C17_UniqueSegmentIds ==
    LET segments == config_segments(persisted.config) IN
    \A i \in DOMAIN segments, j \in DOMAIN segments :
        i # j => id(segments[i]) # id(segments[j])

\* Two backfill cycles have each added a segment to the list.
C17_Witness ==
    /\ persisted.rev = 2
    /\ Len(config_segments(persisted.config)) = 2
    /\ config_segments(persisted.config)[1].id # config_segments(persisted.config)[2].id
    /\ config_segments(persisted.config)[1].id > MaxDocs
    /\ config_segments(persisted.config)[2].id > MaxDocs

(***************************************************************************)
(* C18. For all valid VectorStatistics a and b, add(a, b) succeeds, its    *)
(* num_documents is num_documents(a) + num_documents(b) and its            *)
(* num_non_deleted_documents is the sum of those of a and b, also when the *)
(* two total counts sum to more than 2^32 - 1: the total never wraps.      *)
(***************************************************************************)
\* A valid statistics value counts no more non-deleted vectors than vectors.
C18_Valid(r) ==
    r.ok /\ limbs_leq(num_non_deleted_documents(r.val), num_documents(r.val))

C18_TotalNeverWraps ==
    (pure.spec = "Stats" /\ pure.pc = "done" /\ C18_Valid(pure.a) /\ C18_Valid(pure.b)) =>
        /\ pure.ab.ok
        /\ num_documents(pure.ab.val)
                = AddLimbs(num_documents(pure.a.val), num_documents(pure.b.val), 0).sum
        /\ num_non_deleted_documents(pure.ab.val)
                = AddLimbs(num_non_deleted_documents(pure.a.val),
                           num_non_deleted_documents(pure.b.val), 0).sum

(***************************************************************************)
(* C19. The non-deleted count never exceeds the total count: when          *)
(* num_non_deleted_documents <= num_documents holds of the statistics      *)
(* added, it holds of the result of every add.                             *)
(***************************************************************************)
C19_NonDeletedWithinTotal ==
    (pure.spec = "Stats" /\ pure.pc = "done") =>
        /\ (C18_Valid(pure.a) /\ C18_Valid(pure.b) /\ pure.ab.ok) => C18_Valid(pure.ab)
        /\ (C18_Valid(pure.a) /\ C18_Valid(pure.b) /\ C18_Valid(pure.c) /\ pure.ab_c.ok) =>
                C18_Valid(pure.ab_c)

(***************************************************************************)
(* C20. The two readers of a persisted index config agree: get_config      *)
(* returns a value if and only if extract_metadata on a record holding the *)
(* config succeeds, and then both yield the same developer_config and the  *)
(* same working state; for a Database or Search config get_config returns  *)
(* None where extract_metadata returns the index-kind-changed error.       *)
(***************************************************************************)
C20_ReadersAgree ==
    (pure.spec = "Meta" /\ pure.pc = "done") =>
        /\ pure.parsed.some <=> pure.extracted.ok
        /\ (pure.parsed.some /\ pure.extracted.ok) =>
                /\ pure.parsed.val.developer_config = pure.extracted.val.developer_config
                /\ pure.parsed.val.on_disk_state = pure.extracted.val.on_disk_state
                /\ pure.parsed.val.developer_config = pure.record.developer_config
                /\ C11_SameContents(pure.record.on_disk_state,
                                    pure.parsed.val.on_disk_state)
        /\ pure.record.kind \in {"Database", "Search"} =>
                /\ pure.parsed = [some |-> FALSE]
                /\ pure.extracted = Err("Index type changed!")

\* Both readers were applied to a Vector config serving a snapshot of
\* unknown format, and to the same effect.
C20_Witness ==
    /\ pure.spec = "Meta" /\ pure.pc = "done"
    /\ pure.record.kind = "Vector"
    /\ pure.record.on_disk_state.tag = "SnapshottedAt"
    /\ pure.record.on_disk_state.inner.data.tag = "Unknown"
    /\ pure.parsed.some /\ pure.extracted.ok
    /\ pure.parsed.val = pure.extracted.val

====
